---- MODULE Spec2Model ----
(***************************************************************************)
(* Model of the AI Meeting Minutes To Task Converter: the Task Store       *)
(* (MemStorage and DatabaseStorage), the REST routes over it, the          *)
(* transcript extraction route and the dashboard's extraction flow.        *)
(***************************************************************************)
EXTENDS Integers, Sequences, FiniteSets, TLC

(***************************************************************************)
(* Bounds of the model.                                                    *)
(***************************************************************************)
MaxTaskId == 2      \* the store hands out ids 1..MaxTaskId
MaxItems == 2       \* longest bulk-create `tasks` array
MaxElems == 2       \* longest `tasks` array in a model reply
MaxNow == 2         \* days the server clock runs through
MaxWorkingSet == 2  \* longest working set the review modal is taken to
MaxModelCalls == 2  \* completion requests the model lets the server send

(***************************************************************************)
(* JSON values as they arrive in request bodies and model replies.  A key  *)
(* that is missing from an object reads as Absent (undefined).             *)
(***************************************************************************)
Str(s) == [kind |-> "string", val |-> s]
Num(s) == [kind |-> "number", val |-> s]
Bool(b) == [kind |-> "boolean", val |-> IF b THEN "true" ELSE "false"]
Null == [kind |-> "null", val |-> ""]
Absent == [kind |-> "absent", val |-> ""]

IsString(v) == v.kind = "string"
IsBoolean(v) == v.kind = "boolean"
IsPresent(v) == v.kind # "absent"

\* JavaScript truthiness of a JSON value (`!x` is its negation).
Truthy(v) ==
  CASE v.kind = "string" -> Len(v.val) # 0
    [] v.kind = "number" -> v.val # "0"
    [] v.kind = "boolean" -> v.val = "true"
    [] OTHER -> FALSE

(***************************************************************************)
(* Users and sessions.  Anonymous is a request without a session.          *)
(***************************************************************************)
Users == {"1", "2"}
Anonymous == "anon"
Callers == Users \cup {Anonymous}
\* The user the browser session belongs to.
SessionUser == "1"

\* A field that was never set reads as undefined.
Undefined == "undefined"
NoTask == [id |-> 0, userId |-> Undefined, description |-> Undefined,
           assignee |-> Undefined, dueDateUtc |-> 0,
           dueDateOriginal |-> Undefined, priority |-> Undefined,
           completed |-> FALSE, createdAt |-> 0]

Response(status, error, message, tasks) ==
  [status |-> status, error |-> error, message |-> message, tasks |-> tasks]

\* Mutation: every request is let through.
requireAuth_Open(caller) == TRUE

\* requireAuth lets a request through when it carries a session; otherwise
\* the answer is 401.
requireAuth(caller) == caller \in Users
AuthRequired == Response(401, "Authentication required", "", <<>>)

(***************************************************************************)
(* Dates are day numbers.  new Date(x) of a JSON value x: a string parses  *)
(* when it is a date the engine understands, a number is an epoch offset,  *)
(* null is the epoch, undefined is an Invalid Date.                        *)
(***************************************************************************)
InvalidDate == -1
ParseableDates == {"2025-06-20"}
DayOf(s) == IF s = "2025-06-20" THEN 20 ELSE InvalidDate

NewDate(v) ==
  CASE v.kind = "string" -> IF v.val \in ParseableDates THEN DayOf(v.val) ELSE InvalidDate
    [] v.kind = "number" -> 0
    [] v.kind = "null" -> 0
    [] v.kind = "boolean" -> 0
    [] OTHER -> InvalidDate

\* Date.prototype.toISOString of a valid date.
toISOString(d) ==
  "2025-06-" \o (IF d < 10 THEN "0" ELSE "") \o ToString(d) \o "T00:00:00.000Z"

convertUtcToLocal(utcDate, timezone) == toISOString(utcDate)

VARIABLES
  storageImpl,     \* which IStorage the server exports: "Mem" or "Db"
  tasks,           \* the task table: id -> Task
  currentTaskId,   \* next id the store hands out
  createdBy,       \* history: id -> the user whose request created the task
  now,             \* the clock, in days
  req,             \* the last request handled
  res,             \* the response to it
  modelCalls,      \* completion requests sent to the language model so far
  transcript,      \* Dashboard: the transcript text area, a sequence of characters
  extractedTasks,  \* Dashboard: the candidates handed to the review modal
  showModal,       \* Dashboard: whether the review modal is open
  extractPending,  \* Dashboard: the response the extraction mutation awaits
  toast,           \* the last toast shown
  modalTasks,      \* Review modal: the working set of candidates (its `tasks` state)
  approvePending,  \* Review modal: the response the approval mutation awaits
  listStale,       \* the task-list query was invalidated
  announced,       \* Review modal: the task count the last "Tasks approved" toast gave
  listData         \* Dashboard: the task list the query holds (the rows on screen)

storeVars == <<storageImpl, tasks, currentTaskId, createdBy, now>>
reviewVars == <<modalTasks, approvePending, listStale, announced, listData>>
clientVars == <<transcript, extractedTasks, showModal, extractPending, toast,
                modalTasks, approvePending, listStale, announced, listData>>
vars == <<storageImpl, tasks, currentTaskId, createdBy, now, req, res, modelCalls,
          transcript, extractedTasks, showModal, extractPending, toast,
          modalTasks, approvePending, listStale, announced, listData>>

(***************************************************************************)
(* shared/schema.ts                                                        *)
(***************************************************************************)
\* Mutation: userId is not omitted from the update schema.
updateTaskKeys_WithUserId ==
  {"description", "assignee", "dueDateUtc", "dueDateOriginal", "priority", "completed",
   "userId"}

\* The columns an update may carry: the insert schema without id, userId
\* and createdAt, every key optional.
updateTaskKeys ==
  {"description", "assignee", "dueDateUtc", "dueDateOriginal", "priority", "completed"}

\* Keys a PUT body is modelled with (userId and id are foreign to the schema).
BodyKeys == updateTaskKeys \cup {"userId"}

\* zod type of a task column, checked against a JSON value.
ColumnAccepts(k, v) ==
  CASE k \in {"description", "assignee", "dueDateOriginal", "priority"} -> IsString(v)
    [] k = "completed" -> IsBoolean(v)
    [] k = "dueDateUtc" -> FALSE      \* z.date(): no JSON value is a Date
    [] k = "userId" -> v.kind = "number"
    [] OTHER -> FALSE

ColumnValue(k, v) == IF k = "completed" THEN v.val = "true" ELSE v.val

\* updateTaskSchema.parse(body): throws unless every present, known key has
\* the column's type; unknown keys are stripped.
updateTaskSchemaOk(body) ==
  \A k \in updateTaskKeys : IsPresent(body[k]) => ColumnAccepts(k, body[k])

updateTaskSchemaParse(body) ==
  [k \in {c \in updateTaskKeys : IsPresent(body[c])} |-> ColumnValue(k, body[k])]

(***************************************************************************)
(* Storage: MemStorage and DatabaseStorage over the same table.            *)
(***************************************************************************)
Store(t, n) == [tasks |-> t, currentTaskId |-> n]

\* { ...task, ...updates }
Merge(task, updates) ==
  [k \in (DOMAIN task) \cup (DOMAIN updates) |->
     IF k \in DOMAIN updates THEN updates[k] ELSE task[k]]

\* Mutation: the owner filter is dropped from the list.
MemGetTasksByUserId_NoFilter(t, userId) == DOMAIN t

MemGetTasksByUserId(t, userId) == {id \in DOMAIN t : t[id].userId = userId}

DbGetTasksByUserId(t, userId) == {id \in DOMAIN t : t[id].userId = userId}

MemUpdateTask(t, id, userId, updates) ==
  IF id \notin DOMAIN t \/ t[id].userId # userId
  THEN [tasks |-> t, found |-> FALSE, task |-> NoTask]
  ELSE LET updatedTask == Merge(t[id], updates)
       IN [tasks |-> [t EXCEPT ![id] = updatedTask], found |-> TRUE, task |-> updatedTask]

\* UPDATE tasks SET ... WHERE id = $id RETURNING *; the owner is compared
\* on the returned row.
DbUpdateTask(t, id, userId, updates) ==
  IF id \notin DOMAIN t
  THEN [tasks |-> t, found |-> FALSE, task |-> NoTask]
  ELSE LET task == Merge(t[id], updates)
           t2 == [t EXCEPT ![id] = task]
       IN IF task.userId = userId
          THEN [tasks |-> t2, found |-> TRUE, task |-> task]
          ELSE [tasks |-> t2, found |-> FALSE, task |-> NoTask]

Without(t, id) == [i \in (DOMAIN t) \ {id} |-> t[i]]

MemDeleteTask(t, id, userId) ==
  IF id \notin DOMAIN t \/ t[id].userId # userId
  THEN [tasks |-> t, deleted |-> FALSE]
  ELSE [tasks |-> Without(t, id), deleted |-> TRUE]

\* Mutation: the result reports any removed row, whoever owns it.
DbDeleteTask_AnyRow(t, id, userId) ==
  IF id \notin DOMAIN t
  THEN [tasks |-> t, deleted |-> FALSE]
  ELSE [tasks |-> Without(t, id), deleted |-> TRUE]

\* DELETE FROM tasks WHERE id = $id RETURNING *; the owner is compared on
\* the returned row.
DbDeleteTask(t, id, userId) ==
  IF id \notin DOMAIN t
  THEN [tasks |-> t, deleted |-> FALSE]
  ELSE [tasks |-> Without(t, id), deleted |-> t[id].userId = userId]

\* createTask: the row gets the next id and the creation time.  The table's
\* column default fills a missing priority in the database only.
MemCreateTask(st, insertTask, time) ==
  LET id == st.currentTaskId
      task == Merge(insertTask, [id |-> id, createdAt |-> time])
  IN [store |-> Store([i \in (DOMAIN st.tasks) \cup {id} |->
                         IF i = id THEN task ELSE st.tasks[i]], id + 1),
      task |-> task]

DbCreateTask(st, insertTask, time) ==
  LET id == st.currentTaskId
      row == IF insertTask.priority = Undefined
             THEN [insertTask EXCEPT !.priority = "P3"] ELSE insertTask
      task == Merge(row, [id |-> id, createdAt |-> time])
  IN [store |-> Store([i \in (DOMAIN st.tasks) \cup {id} |->
                         IF i = id THEN task ELSE st.tasks[i]], id + 1),
      task |-> task]

getTasksByUserId(impl, t, userId) ==
  IF impl = "Mem" THEN MemGetTasksByUserId(t, userId) ELSE DbGetTasksByUserId(t, userId)

updateTask(impl, t, id, userId, updates) ==
  IF impl = "Mem" THEN MemUpdateTask(t, id, userId, updates)
  ELSE DbUpdateTask(t, id, userId, updates)

deleteTask(impl, t, id, userId) ==
  IF impl = "Mem" THEN MemDeleteTask(t, id, userId) ELSE DbDeleteTask(t, id, userId)

createTask(impl, st, insertTask, time) ==
  IF impl = "Mem" THEN MemCreateTask(st, insertTask, time)
  ELSE DbCreateTask(st, insertTask, time)

(***************************************************************************)
(* Routes over the Task Store.  Each handler is an operator from the       *)
(* store and the request to the new store and the response.                *)
(***************************************************************************)
Outcome(st, response, created) == [store |-> st, res |-> response, created |-> created]

RECURSIVE ListFrom(_)
\* The ids of S in ascending order (rows come back in insertion order).
ListFrom(S) ==
  IF S = {} THEN <<>>
  ELSE LET m == CHOOSE x \in S : \A y \in S : x <= y
       IN <<m>> \o ListFrom(S \ {m})

\* GET /api/tasks
GetTasks(impl, st, caller) ==
  IF ~requireAuth(caller) THEN Outcome(st, AuthRequired, {})
  ELSE LET ids == ListFrom(getTasksByUserId(impl, st.tasks, caller))
       IN IF \E i \in 1..Len(ids) : st.tasks[ids[i]].dueDateUtc = InvalidDate
          THEN Outcome(st, Response(500, "Failed to fetch tasks", "", <<>>), {})
          ELSE Outcome(st,
                 Response(200, "", "",
                   [i \in 1..Len(ids) |->
                      Merge(st.tasks[ids[i]],
                            [dueDateLocal |->
                               convertUtcToLocal(st.tasks[ids[i]].dueDateUtc, "UTC")])]),
                 {})

\* insertTaskSchema.parse of the object the bulk-create loop builds from one
\* item: description, assignee and dueDateOriginal must be strings, priority
\* a string when present.
insertTaskSchemaOk(taskData) ==
  /\ IsString(taskData.task_description)
  /\ IsString(taskData.assignee)
  /\ IsString(taskData.due_date)
  /\ (IsPresent(taskData.priority) => IsString(taskData.priority))

\* Mutation: the fallback due date is the request time itself.
DueDateOf_Today(taskData, time) ==
  IF taskData.json # "object" THEN time
  ELSE IF NewDate(taskData.due_date) = InvalidDate THEN time
       ELSE NewDate(taskData.due_date)

\* The due date of one item: new Date(due_date), or tomorrow when that is
\* an Invalid Date (or reading due_date throws).
DueDateOf(taskData, time) ==
  IF taskData.json # "object" THEN time + 1
  ELSE IF NewDate(taskData.due_date) = InvalidDate THEN time + 1
       ELSE NewDate(taskData.due_date)

\* Mutation: the item is spread into the row, so that its own userId and
\* completed win.
taskToInsert_Spread(caller, taskData, time) ==
  [userId |-> IF "userId" \in DOMAIN taskData THEN taskData.userId.val ELSE caller,
   description |-> taskData.task_description.val,
   assignee |-> taskData.assignee.val,
   dueDateUtc |-> DueDateOf(taskData, time),
   dueDateOriginal |-> taskData.due_date.val,
   priority |-> IF IsPresent(taskData.priority) THEN taskData.priority.val ELSE Undefined,
   completed |-> IF "completed" \in DOMAIN taskData
                 THEN taskData.completed.val = "true" ELSE FALSE]

taskToInsert(caller, taskData, time) ==
  [userId |-> caller,
   description |-> taskData.task_description.val,
   assignee |-> taskData.assignee.val,
   dueDateUtc |-> DueDateOf(taskData, time),
   dueDateOriginal |-> taskData.due_date.val,
   priority |-> IF IsPresent(taskData.priority) THEN taskData.priority.val ELSE Undefined,
   completed |-> FALSE]

RECURSIVE CreateEach_AbortOnError(_, _, _, _, _, _)
\* Mutation: the first item that fails ends the loop.
CreateEach_AbortOnError(impl, st, caller, items, time, createdTasks) ==
  IF items = <<>> THEN [store |-> st, createdTasks |-> createdTasks]
  ELSE LET taskData == Head(items)
       IN IF taskData.json # "object" \/ ~insertTaskSchemaOk(taskData)
          THEN [store |-> st, createdTasks |-> createdTasks]
          ELSE LET c == createTask(impl, st, taskToInsert(caller, taskData, time), time)
               IN CreateEach_AbortOnError(impl, c.store, caller, Tail(items), time,
                                          Append(createdTasks, c.task))

RECURSIVE CreateEach(_, _, _, _, _, _)
\* for (const taskData of tasksToCreate) { try { ... } catch { continue } }
CreateEach(impl, st, caller, items, time, createdTasks) ==
  IF items = <<>> THEN [store |-> st, createdTasks |-> createdTasks]
  ELSE LET taskData == Head(items)
       IN IF taskData.json # "object" \/ ~insertTaskSchemaOk(taskData)
          THEN CreateEach(impl, st, caller, Tail(items), time, createdTasks)
          ELSE LET c == createTask(impl, st, taskToInsert(caller, taskData, time), time)
               IN CreateEach(impl, c.store, caller, Tail(items), time,
                             Append(createdTasks, c.task))

\* Mutation: one item that fails makes the whole request fail, with nothing
\* written.
PostTasks_RejectMalformed(impl, st, caller, body, time) ==
  IF ~requireAuth(caller) THEN Outcome(st, AuthRequired, {})
  ELSE IF ~body.isArray
       THEN Outcome(st, Response(400, "Tasks array is required", "", <<>>), {})
       ELSE LET r == CreateEach(impl, st, caller, body.items, time, <<>>)
            IN IF Len(r.createdTasks) < Len(body.items)
               THEN Outcome(st, Response(400, "Invalid task", "", <<>>), {})
               ELSE Outcome(r.store, Response(201, "", "", r.createdTasks),
                            {r.createdTasks[i].id : i \in 1..Len(r.createdTasks)})

\* POST /api/tasks
PostTasks(impl, st, caller, body, time) ==
  IF ~requireAuth(caller) THEN Outcome(st, AuthRequired, {})
  ELSE IF ~body.isArray
       THEN Outcome(st, Response(400, "Tasks array is required", "", <<>>), {})
       ELSE LET r == CreateEach(impl, st, caller, body.items, time, <<>>)
            IN Outcome(r.store, Response(201, "", "", r.createdTasks),
                       {r.createdTasks[i].id : i \in 1..Len(r.createdTasks)})

\* PUT /api/tasks/:id
PutTask(impl, st, caller, id, body) ==
  IF ~requireAuth(caller) THEN Outcome(st, AuthRequired, {})
  ELSE IF ~updateTaskSchemaOk(body)
       THEN Outcome(st, Response(500, "Failed to update task", "", <<>>), {})
       ELSE LET u == updateTask(impl, st.tasks, id, caller, updateTaskSchemaParse(body))
            IN IF ~u.found
               THEN Outcome(Store(u.tasks, st.currentTaskId),
                            Response(404, "Task not found", "", <<>>), {})
               ELSE Outcome(Store(u.tasks, st.currentTaskId),
                            Response(200, "", "", <<u.task>>), {})

\* DELETE /api/tasks/:id
DeleteTask(impl, st, caller, id) ==
  IF ~requireAuth(caller) THEN Outcome(st, AuthRequired, {})
  ELSE LET d == deleteTask(impl, st.tasks, id, caller)
       IN IF ~d.deleted
          THEN Outcome(Store(d.tasks, st.currentTaskId),
                       Response(404, "Task not found", "", <<>>), {})
          ELSE Outcome(Store(d.tasks, st.currentTaskId), Response(204, "", "", <<>>), {})

(***************************************************************************)
(* Requests the model sends.                                               *)
(***************************************************************************)
Item(d, a, due, p) ==
  [json |-> "object", task_description |-> d, assignee |-> a, due_date |-> due, priority |-> p]
NullItem == [json |-> "null", task_description |-> Absent, assignee |-> Absent,
             due_date |-> Absent, priority |-> Absent]

\* Bulk-create items: a well-formed candidate whose date phrase does not
\* parse, one without an assignee, and a null.
Items ==
  { Item(Str("d1"), Str("a"), Str("next Friday at noon"), Str("P1")),
    Item(Str("d1"), Absent, Str("next Friday at noon"), Str("P1")),
    NullItem }

SeqsUpTo(S, n) == UNION {[1..k -> S] : k \in 0..n}

CreateBodies ==
  {[isArray |-> TRUE, items |-> s] : s \in SeqsUpTo(Items, MaxItems)}
    \cup {[isArray |-> FALSE, items |-> <<>>]}

NoFields == [k \in BodyKeys |-> Absent]

\* PUT bodies: an empty one, a change of fields alone and with a userId
\* named, and a due date (a string, as JSON carries it).
UpdateBodies ==
  { NoFields,
    [NoFields EXCEPT !.dueDateUtc = Str("2025-06-20")] }
  \cup { [NoFields EXCEPT !.completed = Bool(TRUE), !.description = Str("d3"), !.userId = u] :
           u \in {Absent, Num("1"), Num("2")} }

TaskIds == 1..(MaxTaskId + 1)

Request(endpoint, caller, id, body) ==
  [endpoint |-> endpoint, caller |-> caller, id |-> id, body |-> body]
NoBody == [isArray |-> FALSE, items |-> <<>>]

(***************************************************************************)
(* Actions.                                                                *)
(***************************************************************************)
Apply(o, caller) ==
  /\ tasks' = o.store.tasks
  /\ currentTaskId' = o.store.currentTaskId
  /\ createdBy' = [i \in (DOMAIN createdBy) \cup o.created |->
                     IF i \in o.created THEN caller ELSE createdBy[i]]
  /\ res' = o.res

ListTasks(caller) ==
  /\ Apply(GetTasks(storageImpl, Store(tasks, currentTaskId), caller), caller)
  /\ req' = Request("GET /api/tasks", caller, 0, NoBody)
  /\ UNCHANGED <<storageImpl, now, modelCalls>>
  /\ UNCHANGED clientVars

BulkCreate(caller, body) ==
  /\ currentTaskId + Len(body.items) <= MaxTaskId + 1
  /\ Apply(PostTasks(storageImpl, Store(tasks, currentTaskId), caller, body, now), caller)
  /\ req' = Request("POST /api/tasks", caller, 0, body)
  /\ UNCHANGED <<storageImpl, now, modelCalls>>
  /\ UNCHANGED clientVars

Update(caller, id, body) ==
  /\ Apply(PutTask(storageImpl, Store(tasks, currentTaskId), caller, id, body), caller)
  /\ req' = Request("PUT /api/tasks/:id", caller, id, body)
  /\ UNCHANGED <<storageImpl, now, modelCalls>>
  /\ UNCHANGED clientVars

Delete(caller, id) ==
  /\ Apply(DeleteTask(storageImpl, Store(tasks, currentTaskId), caller, id), caller)
  /\ req' = Request("DELETE /api/tasks/:id", caller, id, NoBody)
  /\ UNCHANGED <<storageImpl, now, modelCalls>>
  /\ UNCHANGED clientVars

\* The server clock moves on between requests.
Tick ==
  /\ now < MaxNow
  /\ now' = now + 1
  /\ UNCHANGED <<storageImpl, tasks, currentTaskId, createdBy>>
  /\ UNCHANGED <<req, res, modelCalls>>
  /\ UNCHANGED clientVars

Toast(title, variant) == [title |-> title, variant |-> variant]
NoToast == Toast("", "default")

NoRequest == Request("none", Anonymous, 0, NoBody)
NoResponse == Response(0, "", "", <<>>)

Init ==
  /\ storageImpl \in {"Mem", "Db"}
  /\ tasks = [i \in {} |-> NoTask]
  /\ currentTaskId = 1
  /\ createdBy = [i \in {} |-> Anonymous]
  /\ now = 1
  /\ req = NoRequest
  /\ res = NoResponse
  /\ modelCalls = 0
  /\ transcript = <<>>
  /\ extractedTasks = <<>>
  /\ showModal = FALSE
  /\ extractPending = NoResponse
  /\ toast = NoToast
  /\ modalTasks = <<>>
  /\ approvePending = NoResponse
  /\ listStale = FALSE
  /\ announced = 0
  /\ listData = <<>>

Next ==
  \/ \E caller \in Callers : ListTasks(caller)
  \/ \E caller \in Callers, body \in CreateBodies : BulkCreate(caller, body)
  \/ \E caller \in Callers, id \in TaskIds, body \in UpdateBodies : Update(caller, id, body)
  \/ \E caller \in Callers, id \in TaskIds : Delete(caller, id)

Spec == Init /\ [][Next]_vars

\* Bulk-create alone, over two well-formed items that differ (the second with
\* a priority outside P1..P4), one without an assignee, and a null.
CreateItems ==
  { Item(Str("d1"), Str("a"), Str("next Friday at noon"), Str("P1")),
    Item(Str("d2"), Str("b"), Str("2025-06-20"), Str("P5")),
    Item(Str("d1"), Absent, Str("next Friday at noon"), Str("P1")),
    NullItem }

CreateItemBodies ==
  {[isArray |-> TRUE, items |-> s] : s \in SeqsUpTo(CreateItems, MaxItems)}
    \cup {[isArray |-> FALSE, items |-> <<>>]}

NextCreate ==
  \E caller \in {SessionUser, Anonymous}, body \in CreateItemBodies : BulkCreate(caller, body)

SpecCreate == Init /\ [][NextCreate]_vars

\* Bulk-create at different request times, over a date that parses and a
\* phrase that does not.
DueDateItems ==
  { Item(Str("d1"), Str("a"), Str("next Friday at noon"), Str("P1")),
    Item(Str("d2"), Str("a"), Str("2025-06-20"), Str("P2")) }

DueDateBodies == {[isArray |-> TRUE, items |-> s] : s \in SeqsUpTo(DueDateItems, MaxItems)}

NextDueDate ==
  \/ \E body \in DueDateBodies : BulkCreate(SessionUser, body)
  \/ Tick

SpecDueDate == Init /\ [][NextDueDate]_vars

\* Bulk-create by either user, over a plain item and one that also names an
\* owner, an id and a completed flag of its own.
OwnerItems ==
  { Item(Str("d1"), Str("a"), Str("2025-06-20"), Str("P1")),
    [json |-> "object", task_description |-> Str("d2"), assignee |-> Str("a"),
     due_date |-> Str("2025-06-20"), priority |-> Str("P1"),
     userId |-> Num("2"), id |-> Num("7"), completed |-> Bool(TRUE)] }

OwnerBodies == {[isArray |-> TRUE, items |-> s] : s \in SeqsUpTo(OwnerItems, MaxItems)}

NextOwner ==
  \/ \E caller \in Users, body \in OwnerBodies : BulkCreate(caller, body)
  \/ \E caller \in Users : ListTasks(caller)

SpecOwner == Init /\ [][NextOwner]_vars

\* Bulk-create and update with priorities inside and outside P1..P4, and
\* with none.
PriorityItems ==
  { Item(Str("d1"), Str("a"), Str("2025-06-20"), p) : p \in {Str("P1"), Str("P5"), Absent} }

PriorityBodies == { [NoFields EXCEPT !.priority = Str(p)] : p \in {"P2", "urgent"} }

PriorityCreateBodies == {[isArray |-> TRUE, items |-> <<item>>] : item \in PriorityItems}

NextPriority ==
  \/ \E caller \in Users, body \in PriorityCreateBodies : BulkCreate(caller, body)
  \/ \E caller \in Users, id \in TaskIds, body \in PriorityBodies : Update(caller, id, body)

SpecPriority == Init /\ [][NextPriority]_vars

TypeOK ==
  /\ storageImpl \in {"Mem", "Db"}
  /\ currentTaskId \in 1..(MaxTaskId + 1)
  /\ DOMAIN tasks \subseteq 1..(currentTaskId - 1)
  /\ \A i \in DOMAIN tasks : tasks[i].id = i

(***************************************************************************)
(* POST /api/extract-tasks                                                 *)
(***************************************************************************)
PriorityEnum == {"P1", "P2", "P3", "P4"}

\* Mutation: priority is any string (z.string() in place of the enum).
extractedTaskSchemaOk_AnyPriority(e) ==
  /\ e.json = "object"
  /\ IsString(e.task_description)
  /\ IsString(e.assignee)
  /\ IsString(e.due_date)

\* extractedTaskSchema.parse(task) succeeds: an object whose three text
\* fields are strings and whose priority, when present, is in the enum.
extractedTaskSchemaOk(e) ==
  /\ e.json = "object"
  /\ IsString(e.task_description)
  /\ IsString(e.assignee)
  /\ IsString(e.due_date)
  /\ (IsPresent(e.priority) => (IsString(e.priority) /\ e.priority.val \in PriorityEnum))

\* Mutation: no default for a missing priority.
extractedTaskSchemaParse_NoDefault(e) ==
  [task_description |-> e.task_description.val,
   assignee |-> e.assignee.val,
   due_date |-> e.due_date.val,
   priority |-> IF IsPresent(e.priority) THEN e.priority.val ELSE Undefined]

\* Its output: the four known keys, priority defaulted to P3 when missing.
extractedTaskSchemaParse(e) ==
  [task_description |-> e.task_description.val,
   assignee |-> e.assignee.val,
   due_date |-> e.due_date.val,
   priority |-> IF IsPresent(e.priority) THEN e.priority.val ELSE "P3"]

NoCandidate == [task_description |-> Undefined, assignee |-> Undefined,
                due_date |-> Undefined, priority |-> Undefined]

\* tasks.map(task => { try { return parse(task) } catch { return null } })
MapValidate(elems) ==
  [i \in 1..Len(elems) |->
     IF extractedTaskSchemaOk(elems[i])
     THEN [isNull |-> FALSE, value |-> extractedTaskSchemaParse(elems[i])]
     ELSE [isNull |-> TRUE, value |-> NoCandidate]]

\* .filter(Boolean)
FilterBoolean(mapped) ==
  LET kept == SelectSeq(mapped, LAMBDA m : ~m.isNull)
  IN [i \in 1..Len(kept) |-> kept[i].value]

\* Mutation: validation stops at the first invalid element.
validatedTasks_StopAtInvalid(elems) ==
  LET firstInvalid ==
        IF \E i \in 1..Len(elems) : ~extractedTaskSchemaOk(elems[i])
        THEN CHOOSE i \in 1..Len(elems) :
               /\ ~extractedTaskSchemaOk(elems[i])
               /\ \A k \in 1..(i - 1) : extractedTaskSchemaOk(elems[k])
        ELSE Len(elems) + 1
  IN FilterBoolean(MapValidate(SubSeq(elems, 1, firstInvalid - 1)))

validatedTasks(elems) == FilterBoolean(MapValidate(elems))

\* Mutation: `result.tasks` is used without `|| []`.
ReplyThrows_NoDefault(reply) ==
  \/ reply.outcome = "throws"
  \/ reply.content \in {"nonjson", "null", "empty"}
  \/ (reply.content = "object" /\ reply.tasksKind # "array")

\* JSON.parse(content || "{}") followed by result.tasks || [] and tasks.map:
\* whether the handler gets as far as a list of elements, and that list.
ReplyThrows(reply) ==
  \/ reply.outcome = "throws"                       \* the completion call rejects
  \/ reply.content = "nonjson"                      \* JSON.parse throws
  \/ reply.content = "null"                         \* null.tasks throws
  \/ (reply.content = "object" /\ reply.tasksKind \in {"string", "object"})  \* no .map

ReplyElems(reply) ==
  IF reply.content = "object" /\ reply.tasksKind = "array" THEN reply.elems ELSE <<>>

ExtractOutcome(response, calls) == [res |-> response, calls |-> calls]

\* Mutation: the `typeof transcript !== "string"` test is missing.
ExtractHandler_NoTypeCheck(caller, body, reply) ==
  IF ~requireAuth(caller) THEN ExtractOutcome(AuthRequired, 0)
  ELSE IF ~Truthy(body.transcript)
       THEN ExtractOutcome(Response(400, "Transcript is required", "", <<>>), 0)
       ELSE IF ReplyThrows(reply)
            THEN ExtractOutcome(Response(500, "Failed to extract tasks", "", <<>>), 1)
            ELSE LET v == validatedTasks(ReplyElems(reply))
                 IN IF Len(v) = 0
                    THEN ExtractOutcome(Response(200, "", "No tasks found", <<>>), 1)
                    ELSE ExtractOutcome(Response(200, "", "", v), 1)

\* Mutation: a failed completion is tried a second time.
ExtractHandler_Retry(caller, body, reply) ==
  IF ~requireAuth(caller) THEN ExtractOutcome(AuthRequired, 0)
  ELSE IF ~Truthy(body.transcript) \/ ~IsString(body.transcript)
       THEN ExtractOutcome(Response(400, "Transcript is required", "", <<>>), 0)
       ELSE IF ReplyThrows(reply)
            THEN ExtractOutcome(Response(500, "Failed to extract tasks", "", <<>>), 2)
            ELSE LET v == validatedTasks(ReplyElems(reply))
                 IN IF Len(v) = 0
                    THEN ExtractOutcome(Response(200, "", "No tasks found", <<>>), 1)
                    ELSE ExtractOutcome(Response(200, "", "", v), 1)

ExtractHandler(caller, body, reply) ==
  IF ~requireAuth(caller) THEN ExtractOutcome(AuthRequired, 0)
  ELSE IF ~Truthy(body.transcript) \/ ~IsString(body.transcript)
       THEN ExtractOutcome(Response(400, "Transcript is required", "", <<>>), 0)
       ELSE IF ReplyThrows(reply)
            THEN ExtractOutcome(Response(500, "Failed to extract tasks", "", <<>>), 1)
            ELSE LET v == validatedTasks(ReplyElems(reply))
                 IN IF Len(v) = 0
                    THEN ExtractOutcome(Response(200, "", "No tasks found", <<>>), 1)
                    ELSE ExtractOutcome(Response(200, "", "", v), 1)

(***************************************************************************)
(* Model replies and extraction requests.                                  *)
(***************************************************************************)
Elem(d, a, due, p) ==
  [json |-> "object", task_description |-> d, assignee |-> a, due_date |-> due, priority |-> p]
NullElem == [json |-> "null", task_description |-> Absent, assignee |-> Absent,
             due_date |-> Absent, priority |-> Absent]

Elems ==
  { Elem(Str("d1"), Str("John"), Str("Friday"), Str("P1")),
    Elem(Str("d2"), Str("John"), Str("Friday"), Absent),
    Elem(Str("d1"), Str("John"), Str("Friday"), Str("P5")),
    Elem(Str("d1"), Absent, Str("Friday"), Str("P2")),
    NullElem }

Reply(outcome, content, tasksKind, elems) ==
  [outcome |-> outcome, content |-> content, tasksKind |-> tasksKind, elems |-> elems]

NoReply == Reply("none", "none", "absent", <<>>)

RepliesOver(E, n) ==
  { Reply("throws", "none", "absent", <<>>),
    Reply("ok", "nonjson", "absent", <<>>),
    Reply("ok", "empty", "absent", <<>>),
    Reply("ok", "null", "absent", <<>>),
    Reply("ok", "object", "absent", <<>>),
    Reply("ok", "object", "null", <<>>),
    Reply("ok", "object", "string", <<>>) }
  \cup { Reply("ok", "object", "array", s) : s \in SeqsUpTo(E, n) }

Replies == RepliesOver(Elems, MaxElems)

TranscriptText == "John will update the database schema by Friday."

ExtractBodies ==
  { [transcript |-> t] :
      t \in {Absent, Null, Num("5"), Str(""), Str(TranscriptText)} }

ExtractRequest(caller, body, reply) ==
  [endpoint |-> "POST /api/extract-tasks", caller |-> caller, id |-> 0,
   body |-> body, reply |-> reply]

\* Mutation: the handler reserves a task id for every candidate it returns.
ExtractTasks_ReserveIds(caller, body, reply) ==
  LET o == ExtractHandler(caller, body, reply)
  IN /\ modelCalls + o.calls <= MaxModelCalls
     /\ modelCalls' = modelCalls + o.calls
     /\ req' = ExtractRequest(caller, body, IF o.calls = 0 THEN NoReply ELSE reply)
     /\ res' = o.res
     /\ currentTaskId' = currentTaskId + Len(o.res.tasks)
     /\ UNCHANGED <<storageImpl, tasks, createdBy, now>>
     /\ UNCHANGED clientVars

\* A request sent straight to the endpoint.
ExtractTasks(caller, body, reply) ==
  LET o == ExtractHandler(caller, body, reply)
  IN /\ modelCalls + o.calls <= MaxModelCalls
     /\ modelCalls' = modelCalls + o.calls
     /\ req' = ExtractRequest(caller, body, IF o.calls = 0 THEN NoReply ELSE reply)
     /\ res' = o.res
     /\ UNCHANGED storeVars
     /\ UNCHANGED clientVars

\* The model replies only to a request that gets as far as the completion
\* call.
ReachesModel(caller, body) == ExtractHandler(caller, body, NoReply).calls > 0

RepliesTo(caller, body, R) == IF ReachesModel(caller, body) THEN R ELSE {NoReply}

NextExtract ==
  \E caller \in Callers, body \in ExtractBodies :
    \E reply \in RepliesTo(caller, body, Replies) : ExtractTasks(caller, body, reply)

SpecExtract == Init /\ [][NextExtract]_vars

\* Replies the dashboard runs see: a failed call, an object without `tasks`,
\* an array without a valid element, and arrays with one.
DashReplies ==
  { Reply("throws", "none", "absent", <<>>),
    Reply("ok", "object", "absent", <<>>),
    Reply("ok", "object", "array", <<Elem(Str("d1"), Absent, Str("Friday"), Str("P2"))>>),
    Reply("ok", "object", "array", <<Elem(Str("d1"), Str("John"), Str("Friday"), Str("P1"))>>),
    Reply("ok", "object", "array",
          <<Elem(Str("d1"), Str("John"), Str("Friday"), Str("P5")),
            Elem(Str("d2"), Str("John"), Str("Friday"), Absent)>>) }

\* Extraction requests interleaved with bulk-create requests, so that the
\* store an extraction runs against holds tasks.
NextExtractStore ==
  \/ \E caller \in Callers, body \in CreateBodies : BulkCreate(caller, body)
  \/ \E caller \in Callers, body \in ExtractBodies :
       \E reply \in RepliesTo(caller, body, DashReplies) : ExtractTasks(caller, body, reply)

SpecExtractStore == Init /\ [][NextExtractStore]_vars

\* The five guarded endpoints side by side, each with one request body that
\* would be served for a caller with a session.
AuthCreateBodies ==
  {[isArray |-> TRUE, items |-> <<Item(Str("d1"), Str("a"), Str("2025-06-20"), Str("P1"))>>]}

AuthUpdateBodies == {[NoFields EXCEPT !.completed = Bool(TRUE)]}

AuthExtractBodies == {[transcript |-> Str(TranscriptText)]}

AuthReplies ==
  {Reply("ok", "object", "array", <<Elem(Str("d1"), Str("John"), Str("Friday"), Str("P1"))>>)}

AuthCallers == {SessionUser, Anonymous}

NextAuth ==
  \/ \E caller \in AuthCallers : ListTasks(caller)
  \/ \E caller \in AuthCallers, body \in AuthCreateBodies : BulkCreate(caller, body)
  \/ \E caller \in AuthCallers, id \in TaskIds, body \in AuthUpdateBodies : Update(caller, id, body)
  \/ \E caller \in AuthCallers, id \in TaskIds : Delete(caller, id)
  \/ \E caller \in AuthCallers, body \in AuthExtractBodies :
       \E reply \in RepliesTo(caller, body, AuthReplies) : ExtractTasks(caller, body, reply)

SpecAuth == Init /\ [][NextAuth]_vars

(***************************************************************************)
(* Dashboard: the transcript form and the extraction mutation.             *)
(***************************************************************************)
Whitespace == {" ", "\t", "\n"}

RECURSIVE TrimStart(_)
TrimStart(t) == IF t # <<>> /\ Head(t) \in Whitespace THEN TrimStart(Tail(t)) ELSE t

RECURSIVE TrimEnd(_)
TrimEnd(t) ==
  IF t # <<>> /\ t[Len(t)] \in Whitespace THEN TrimEnd(SubSeq(t, 1, Len(t) - 1)) ELSE t

\* String.prototype.trim, on a sequence of characters.
Trim(t) == TrimEnd(TrimStart(t))

RECURSIVE Join(_)
\* The string made of the characters of t.
Join(t) == IF t = <<>> THEN "" ELSE Head(t) \o Join(Tail(t))

\* What the user can type into the transcript area.
Texts == { <<>>, <<" ", "\n">>, <<"J", "o", "h", "n", " ", "w", "i", "l", "l">> }

\* apiRequest resolves for a 2xx response and throws for any other.
apiRequestOk(response) == response.status \in 200..299

SetTranscript(text) ==
  /\ transcript' = text
  /\ UNCHANGED <<extractedTasks, showModal, extractPending, toast>>
  /\ UNCHANGED reviewVars
  /\ UNCHANGED <<req, res, modelCalls>>
  /\ UNCHANGED storeVars

\* handleExtractTasks: a blank transcript gets a toast and no request;
\* otherwise the mutation posts the transcript and awaits the response.
handleExtractTasks(reply) ==
  /\ extractPending = NoResponse       \* the button is disabled while pending
  /\ IF Trim(transcript) = <<>>
     THEN /\ toast' = Toast("No transcript", "destructive")
          /\ UNCHANGED <<transcript, extractedTasks, showModal, extractPending>>
          /\ UNCHANGED <<req, res, modelCalls>>
     ELSE LET body == [transcript |-> Str(Join(transcript))]
              o == ExtractHandler(SessionUser, body, reply)
          IN /\ modelCalls + o.calls <= MaxModelCalls
             /\ modelCalls' = modelCalls + o.calls
             /\ req' = ExtractRequest(SessionUser, body, IF o.calls = 0 THEN NoReply ELSE reply)
             /\ res' = o.res
             /\ extractPending' = o.res
             /\ UNCHANGED <<transcript, extractedTasks, showModal, toast>>
  /\ UNCHANGED reviewVars
  /\ UNCHANGED storeVars

\* Mutation: the modal keeps the working set it had when new candidates
\* arrive.
ExtractSettled_NoEffect ==
  /\ extractPending # NoResponse
  /\ extractPending' = NoResponse
  /\ IF apiRequestOk(extractPending)
     THEN IF Len(extractPending.tasks) > 0
          THEN /\ extractedTasks' = extractPending.tasks
               /\ UNCHANGED modalTasks
               /\ showModal' = TRUE
               /\ UNCHANGED toast
          ELSE /\ toast' = Toast("No tasks found", "default")
               /\ UNCHANGED <<extractedTasks, showModal, modalTasks>>
     ELSE /\ toast' = Toast("Extraction failed", "destructive")
          /\ UNCHANGED <<extractedTasks, showModal, modalTasks>>
  /\ UNCHANGED <<transcript, req, res, modelCalls, approvePending, listStale, announced, listData>>
  /\ UNCHANGED storeVars

\* extractTasksMutation.onSuccess / onError, when the response arrives.
ExtractSettled ==
  /\ extractPending # NoResponse
  /\ extractPending' = NoResponse
  /\ IF apiRequestOk(extractPending)
     THEN IF Len(extractPending.tasks) > 0
          THEN /\ extractedTasks' = extractPending.tasks
               /\ modalTasks' = extractPending.tasks   \* useEffect: setTasks(extractedTasks)
               /\ showModal' = TRUE
               /\ UNCHANGED toast
          ELSE /\ toast' = Toast("No tasks found", "default")
               /\ UNCHANGED <<extractedTasks, showModal, modalTasks>>
     ELSE /\ toast' = Toast("Extraction failed", "destructive")
          /\ UNCHANGED <<extractedTasks, showModal, modalTasks>>
  /\ UNCHANGED <<transcript, req, res, modelCalls, approvePending, listStale, announced, listData>>
  /\ UNCHANGED storeVars

\* The review modal is dismissed: onOpenChange(false).
CloseModal ==
  /\ showModal
  /\ showModal' = FALSE
  /\ UNCHANGED <<transcript, extractedTasks, extractPending, toast>>
  /\ UNCHANGED reviewVars
  /\ UNCHANGED <<req, res, modelCalls>>
  /\ UNCHANGED storeVars

NextDashboard ==
  \/ \E text \in Texts : SetTranscript(text)
  \/ \E reply \in DashReplies : handleExtractTasks(reply)
  \/ ExtractSettled
  \/ CloseModal
  \/ \E caller \in Callers, body \in ExtractBodies :
       \E reply \in RepliesTo(caller, body, DashReplies) : ExtractTasks(caller, body, reply)

SpecDashboard == Init /\ [][NextDashboard]_vars

(***************************************************************************)
(* Review modal: the working set of candidates and the approval mutation.  *)
(***************************************************************************)
\* JSON.stringify of one candidate of the working set.
ToJson(c) ==
  Item(Str(c.task_description), Str(c.assignee), Str(c.due_date), Str(c.priority))

\* The body of the approval request: { tasks: tasksToApprove }.
ApproveBody(ts) == [isArray |-> TRUE, items |-> [i \in 1..Len(ts) |-> ToJson(ts[i])]]

\* The candidate addNewTask appends.
newTask == [task_description |-> "", assignee |-> "", due_date |-> "", priority |-> "P3"]

\* Mutation: the element and everything after it go.
FilterOut_Truncate(ts, index) == [k \in 1..(index - 1) |-> ts[k]]

\* tasks.filter((_, i) => i !== index), positions counted from 1.
FilterOut(ts, index) ==
  LET keep == ListFrom({i \in 1..Len(ts) : i # index})
  IN [k \in 1..Len(keep) |-> ts[keep[k]]]

\* Mutation: the new candidate goes first.
WithNewTask_First(ts) == <<newTask>> \o ts

\* [...tasks, newTask]
WithNewTask(ts) == ts \o <<newTask>>

removeTask(index) ==
  /\ showModal
  /\ index \in 1..Len(modalTasks)
  /\ modalTasks' = FilterOut(modalTasks, index)
  /\ UNCHANGED <<transcript, extractedTasks, showModal, extractPending, toast,
                 approvePending, listStale, announced, listData>>
  /\ UNCHANGED <<req, res, modelCalls>>
  /\ UNCHANGED storeVars

addNewTask ==
  /\ showModal
  /\ Len(modalTasks) < MaxWorkingSet
  /\ modalTasks' = WithNewTask(modalTasks)
  /\ UNCHANGED <<transcript, extractedTasks, showModal, extractPending, toast,
                 approvePending, listStale, announced, listData>>
  /\ UNCHANGED <<req, res, modelCalls>>
  /\ UNCHANGED storeVars

\* Mutation: the button is disabled only while a request is pending.
ApproveDisabled_PendingOnly == approvePending # NoResponse

\* Mutation: the button is disabled only on an empty working set.
ApproveDisabled_EmptyOnly == Len(modalTasks) = 0

\* The Approve All button: disabled={isPending || tasks.length === 0}.
ApproveDisabled == approvePending # NoResponse \/ Len(modalTasks) = 0

\* A click on Approve All runs handleApproveAll: an empty working set gets a
\* toast and no request, otherwise the mutation posts the working set.  The
\* request carries the session the server still knows, or one it no longer
\* does.
handleApproveAll(caller) ==
  /\ showModal
  /\ ~ApproveDisabled
  /\ IF Len(modalTasks) = 0
     THEN /\ toast' = Toast("No tasks to approve", "destructive")
          /\ UNCHANGED <<tasks, currentTaskId, createdBy, req, res, approvePending>>
     ELSE LET body == ApproveBody(modalTasks)
              o == PostTasks(storageImpl, Store(tasks, currentTaskId), caller, body, now)
          IN /\ requireAuth(caller) => currentTaskId + Len(body.items) <= MaxTaskId + 1
             /\ Apply(o, caller)
             /\ req' = Request("POST /api/tasks", caller, 0, body)
             /\ approvePending' = o.res
             /\ UNCHANGED toast
  /\ UNCHANGED <<storageImpl, now, modelCalls>>
  /\ UNCHANGED <<transcript, extractedTasks, showModal, extractPending, modalTasks, listStale, announced, listData>>

\* Mutation: a successful approval leaves the candidates where they are.
ApproveSettled_KeepCandidates ==
  /\ approvePending # NoResponse
  /\ approvePending' = NoResponse
  /\ IF apiRequestOk(approvePending)
     THEN /\ toast' = Toast("Tasks approved", "default")
          /\ announced' = Len(modalTasks)   \* `${tasks.length} tasks have been added`
          /\ showModal' = FALSE
          /\ transcript' = <<>>
          /\ listStale' = TRUE
          /\ UNCHANGED <<extractedTasks, modalTasks>>
     ELSE /\ toast' = Toast("Approval failed", "destructive")
          /\ UNCHANGED announced
          /\ UNCHANGED <<showModal, extractedTasks, modalTasks, transcript, listStale>>
  /\ UNCHANGED <<extractPending, req, res, modelCalls, listData>>
  /\ UNCHANGED storeVars

\* Mutation: a failed approval throws the working set away.
ApproveSettled_ClearOnError ==
  /\ approvePending # NoResponse
  /\ approvePending' = NoResponse
  /\ IF apiRequestOk(approvePending)
     THEN /\ toast' = Toast("Tasks approved", "default")
          /\ announced' = Len(modalTasks)   \* `${tasks.length} tasks have been added`
          /\ showModal' = FALSE
          /\ extractedTasks' = <<>>
          /\ modalTasks' = <<>>
          /\ transcript' = <<>>
          /\ listStale' = TRUE
     ELSE /\ toast' = Toast("Approval failed", "destructive")
          /\ UNCHANGED announced
          /\ modalTasks' = <<>>
          /\ UNCHANGED <<showModal, extractedTasks, transcript, listStale>>
  /\ UNCHANGED <<extractPending, req, res, modelCalls, listData>>
  /\ UNCHANGED storeVars

\* approveTasksMutation.onSuccess / onError, when the response arrives.
\* onSuccess calls onTasksApproved, which closes the modal, empties
\* extractedTasks (the modal's effect then empties the working set), clears
\* the transcript and invalidates the task-list query.
ApproveSettled ==
  /\ approvePending # NoResponse
  /\ approvePending' = NoResponse
  /\ IF apiRequestOk(approvePending)
     THEN /\ toast' = Toast("Tasks approved", "default")
          /\ announced' = Len(modalTasks)   \* `${tasks.length} tasks have been added`
          /\ showModal' = FALSE
          /\ extractedTasks' = <<>>
          /\ modalTasks' = <<>>
          /\ transcript' = <<>>
          /\ listStale' = TRUE
     ELSE /\ toast' = Toast("Approval failed", "destructive")
          /\ UNCHANGED announced
          /\ UNCHANGED <<showModal, extractedTasks, modalTasks, transcript, listStale>>
  /\ UNCHANGED <<extractPending, req, res, modelCalls, listData>>
  /\ UNCHANGED storeVars

\* Mutation: the candidate is rebuilt from a blank one, so that its other
\* fields are lost.
WithField_FromBlank(ts, index, field, value) ==
  [ts EXCEPT ![index] = [newTask EXCEPT ![field] = value]]

\* updatedTasks[index] = { ...updatedTasks[index], [field]: value }
WithField(ts, index, field, value) ==
  [ts EXCEPT ![index] = [@ EXCEPT ![field] = value]]

CandidateFields == {"task_description", "assignee", "due_date", "priority"}

\* What a control of the modal can hand to updateTask: any text from the
\* three inputs, one of the four items from the priority select.
EditValues(field) ==
  CASE field = "priority" -> {"P2"}
    [] field = "task_description" -> {"", "call Bob"}
    [] OTHER -> {""}

\* The modal's updateTask(index, field, value), called from a control of the
\* candidate at that index.
modalUpdateTask(index, field, value) ==
  /\ showModal
  /\ index \in 1..Len(modalTasks)
  /\ modalTasks' = WithField(modalTasks, index, field, value)
  /\ UNCHANGED <<transcript, extractedTasks, showModal, extractPending, toast,
                 approvePending, listStale, announced, listData>>
  /\ UNCHANGED <<req, res, modelCalls>>
  /\ UNCHANGED storeVars

\* The review runs: a transcript that is not blank, and a reply with two
\* valid candidates.
ReviewTexts == {t \in Texts : Trim(t) # <<>>}

ReviewReplies ==
  { Reply("ok", "object", "array",
          <<Elem(Str("d1"), Str("John"), Str("Friday"), Str("P1")),
            Elem(Str("d2"), Str("Ann"), Str("2025-06-20"), Absent)>>) }

NextReview ==
  \/ \E text \in ReviewTexts : SetTranscript(text)
  \/ \E reply \in ReviewReplies : handleExtractTasks(reply)
  \/ ExtractSettled
  \/ \E index \in 1..(MaxWorkingSet + 1) : removeTask(index)
  \/ addNewTask
  \/ \E caller \in {SessionUser, Anonymous} : handleApproveAll(caller)
  \/ ApproveSettled
  \/ CloseModal

SpecReview == Init /\ [][NextReview]_vars

\* Editing alone: candidates arrive from an extraction and their fields are
\* changed.
NextEdit ==
  \/ \E text \in ReviewTexts : SetTranscript(text)
  \/ \E reply \in ReviewReplies : handleExtractTasks(reply)
  \/ ExtractSettled
  \/ \E index \in 1..2, field \in CandidateFields :
       \E value \in EditValues(field) : modalUpdateTask(index, field, value)

SpecEdit == Init /\ [][NextEdit]_vars

(***************************************************************************)
(* Dashboard: the task table, the status control and the edit form.        *)
(***************************************************************************)
\* The task-list query fetches: when the dashboard mounts and after an
\* invalidation.
FetchList ==
  LET o == GetTasks(storageImpl, Store(tasks, currentTaskId), SessionUser)
  IN /\ Apply(o, SessionUser)
     /\ req' = Request("GET /api/tasks", SessionUser, 0, NoBody)
     /\ IF apiRequestOk(o.res)
        THEN listData' = o.res.tasks /\ listStale' = FALSE
        ELSE UNCHANGED <<listData, listStale>>
     /\ UNCHANGED <<storageImpl, now, modelCalls>>
     /\ UNCHANGED <<transcript, extractedTasks, showModal, extractPending, toast,
                    modalTasks, approvePending, announced>>

\* completed: !task.completed, of the row the button was rendered for.
ToggleValue(task) == ~task.completed

\* A press of the status control of a row: toggleTaskMutation.mutate(task),
\* with its onSuccess (invalidate the list) or onError (toast).
toggleTask(index) ==
  /\ index \in 1..Len(listData)
  /\ LET task == listData[index]
         body == [NoFields EXCEPT !.completed = Bool(ToggleValue(task))]
         o == PutTask(storageImpl, Store(tasks, currentTaskId), SessionUser, task.id, body)
     IN /\ Apply(o, SessionUser)
        /\ req' = Request("PUT /api/tasks/:id", SessionUser, task.id, body)
        /\ IF apiRequestOk(o.res)
           THEN listStale' = TRUE /\ UNCHANGED toast
           ELSE toast' = Toast("Update failed", "destructive") /\ UNCHANGED listStale
  /\ UNCHANGED <<storageImpl, now, modelCalls, listData>>
  /\ UNCHANGED <<transcript, extractedTasks, showModal, extractPending,
                 modalTasks, approvePending, announced>>

\* What the edit form can hold when Save is pressed: the description as typed
\* characters, and a due-date field that may have been changed.
EditForms ==
  { [description |-> d, assignee |-> "Zoe", dueDateLocal |-> due, priority |-> "P2"] :
      d \in {<<>>, <<" ">>, <<"d", "9">>}, due \in {"", "2025-07-01T09:00"} }

\* Mutation: the request carries the form's due date as well.
SaveBody_WithDueDate(form) ==
  [NoFields EXCEPT !.description = Str(Join(form.description)),
                   !.assignee = Str(form.assignee),
                   !.priority = Str(form.priority),
                   !.dueDateOriginal = Str(form.dueDateLocal)]

\* updateTaskMutation.mutate({ description, assignee, priority })
SaveBody(form) ==
  [NoFields EXCEPT !.description = Str(Join(form.description)),
                   !.assignee = Str(form.assignee),
                   !.priority = Str(form.priority)]

\* TaskEditModal.handleSave for the row the form was opened on: a blank
\* description gets a toast and no request; otherwise the mutation sends the
\* three fields, and its onSuccess or onError follows.
handleSave(index, form) ==
  /\ index \in 1..Len(listData)
  /\ IF Trim(form.description) = <<>>
     THEN /\ toast' = Toast("Validation error", "destructive")
          /\ UNCHANGED <<tasks, currentTaskId, createdBy, req, res, listStale>>
     ELSE LET task == listData[index]
              body == SaveBody(form)
              o == PutTask(storageImpl, Store(tasks, currentTaskId), SessionUser, task.id, body)
          IN /\ Apply(o, SessionUser)
             /\ req' = Request("PUT /api/tasks/:id", SessionUser, task.id, body)
             /\ IF apiRequestOk(o.res)
                THEN toast' = Toast("Task updated", "default") /\ listStale' = TRUE
                ELSE toast' = Toast("Update failed", "destructive") /\ UNCHANGED listStale
  /\ UNCHANGED <<storageImpl, now, modelCalls, listData>>
  /\ UNCHANGED <<transcript, extractedTasks, showModal, extractPending,
                 modalTasks, approvePending, announced>>

NextTaskList ==
  \/ \E caller \in Users, body \in AuthCreateBodies : BulkCreate(caller, body)
  \/ FetchList
  \/ \E index \in 1..MaxTaskId : toggleTask(index)
  \/ \E index \in 1..MaxTaskId, form \in EditForms : handleSave(index, form)

SpecTaskList == Init /\ [][NextTaskList]_vars

(***************************************************************************)
(* Properties of the Task Store and its routes.                            *)
(***************************************************************************)
IsPut(r) == r.endpoint = "PUT /api/tasks/:id"
IsDelete(r) == r.endpoint = "DELETE /api/tasks/:id"
IsList(r) == r.endpoint = "GET /api/tasks"
IsBulkCreate(r) == r.endpoint = "POST /api/tasks"

OwnedBy(t, id, user) == id \in DOMAIN t /\ t[id].userId = user
OwnedByOther(t, id, user) == id \in DOMAIN t /\ t[id].userId # user

\* C1: an update by user A of a task owned by another user B changes no
\* field of that task and is answered not-found.
C1_NonOwnerUpdateChangesNothing ==
  [][ ( /\ IsPut(req')
        /\ requireAuth(req'.caller)
        /\ updateTaskSchemaOk(req'.body)
        /\ OwnedByOther(tasks, req'.id, req'.caller) )
      => ( /\ req'.id \in DOMAIN tasks'
           /\ tasks'[req'.id] = tasks[req'.id]
           /\ res'.status = 404 ) ]_vars

\* C2: a delete removes the task only when the caller owns it, and answers
\* success exactly when a task was removed; a delete by a non-owner or of a
\* missing id leaves the store unchanged and answers not-found.
C2_DeleteOnlyByOwner ==
  [][ ( IsDelete(req') /\ requireAuth(req'.caller) )
      => IF OwnedBy(tasks, req'.id, req'.caller)
         THEN tasks' = Without(tasks, req'.id) /\ res'.status = 204
         ELSE tasks' = tasks /\ res'.status = 404 ]_vars

\* C3: the list returned to caller A holds exactly the stored tasks whose
\* owner is A, each once and with its stored fields.
C3_ListIsExactlyOwnTasks ==
  ( IsList(req) /\ requireAuth(req.caller) )
    => /\ res.status = 200
       /\ {res.tasks[i].id : i \in 1..Len(res.tasks)}
            = {id \in DOMAIN tasks : tasks[id].userId = req.caller}
       /\ Len(res.tasks) = Cardinality({id \in DOMAIN tasks : tasks[id].userId = req.caller})
       /\ \A i \in 1..Len(res.tasks) :
            /\ res.tasks[i].id \in DOMAIN tasks
            /\ \A k \in DOMAIN tasks[res.tasks[i].id] :
                 res.tasks[i][k] = tasks[res.tasks[i].id][k]

\* A list was returned to a user while the store also held another user's task.
C3_Witness ==
  /\ IsList(req) /\ requireAuth(req.caller) /\ Len(res.tasks) > 0
  /\ \E id \in DOMAIN tasks : tasks[id].userId # req.caller

\* C4: for update and delete, the response for an id owned by another user
\* equals, in status and body, the response for an id that does not exist.
C4_MismatchLooksLikeMissing ==
  \A caller \in Users, idOther \in TaskIds, idMissing \in TaskIds :
    ( OwnedByOther(tasks, idOther, caller) /\ idMissing \notin DOMAIN tasks )
      => /\ \A body \in UpdateBodies :
              PutTask(storageImpl, Store(tasks, currentTaskId), caller, idOther, body).res
                = PutTask(storageImpl, Store(tasks, currentTaskId), caller, idMissing, body).res
         /\ DeleteTask(storageImpl, Store(tasks, currentTaskId), caller, idOther).res
              = DeleteTask(storageImpl, Store(tasks, currentTaskId), caller, idMissing).res

\* An update of another user's task was answered while that task is stored.
C4_Witness ==
  /\ IsPut(req) /\ requireAuth(req.caller) /\ res.status = 404
  /\ OwnedByOther(tasks, req.id, req.caller)

\* C5: every stored task's owner is the user whose request created it.
C5_OwnerIsCreator ==
  \A id \in DOMAIN tasks : id \in DOMAIN createdBy /\ tasks[id].userId = createdBy[id]

\* An update whose body names another user's id was applied to a task.
C5_Witness ==
  /\ IsPut(req) /\ res.status = 200
  /\ req.body.userId.kind = "number" /\ req.body.userId.val # req.caller
  /\ req.id \in DOMAIN tasks /\ tasks[req.id].completed

(***************************************************************************)
(* Properties of the extraction route and the dashboard.                   *)
(***************************************************************************)
IsExtract(r) == r.endpoint = "POST /api/extract-tasks"

\* The request reached the model and the reply carried a `tasks` array.
GotArray(r) ==
  /\ IsExtract(r)
  /\ r.reply.outcome = "ok" /\ r.reply.content = "object" /\ r.reply.tasksKind = "array"

RECURSIVE ValidSubsequence(_)
\* The elements that pass the schema, parsed, in their original order.
ValidSubsequence(elems) ==
  IF elems = <<>> THEN <<>>
  ELSE IF extractedTaskSchemaOk(Head(elems))
       THEN <<extractedTaskSchemaParse(Head(elems))>> \o ValidSubsequence(Tail(elems))
       ELSE ValidSubsequence(Tail(elems))

\* C6: when the reply's `tasks` array has elements e1..en, the extraction
\* answers success with exactly the elements that pass validation, in their
\* original order, none dropped or duplicated, whatever invalid elements
\* stand between them.
C6_ResultIsValidSubsequence ==
  GotArray(req)
    => /\ res.status = 200
       /\ res.error = ""
       /\ res.tasks = ValidSubsequence(req.reply.elems)
       /\ Len(res.tasks)
            = Cardinality({i \in 1..Len(req.reply.elems) :
                             extractedTaskSchemaOk(req.reply.elems[i])})

\* A valid element after an invalid one came through.
C6_Witness ==
  /\ GotArray(req) /\ Len(req.reply.elems) = 2
  /\ ~extractedTaskSchemaOk(req.reply.elems[1])
  /\ extractedTaskSchemaOk(req.reply.elems[2])
  /\ Len(res.tasks) = 1

\* A priority that is present and not one of P1..P4.
PriorityOutsideEnum(e) ==
  /\ e.json = "object"
  /\ IsPresent(e.priority)
  /\ ~(IsString(e.priority) /\ e.priority.val \in {"P1", "P2", "P3", "P4"})

\* C7: a candidate whose priority is outside {P1,P2,P3,P4} is excluded from
\* the result (the response is the one the reply gives without it), and no
\* result carries a priority outside the enum.
C7_BadPriorityExcluded ==
  GotArray(req)
    => /\ res = ExtractHandler(req.caller, req.body,
                  [req.reply EXCEPT !.elems =
                     SelectSeq(req.reply.elems, LAMBDA e : ~PriorityOutsideEnum(e))]).res
       /\ \A j \in 1..Len(res.tasks) : res.tasks[j].priority \in {"P1", "P2", "P3", "P4"}

\* A reply held a candidate with priority P5 next to a valid one.
C7_Witness ==
  /\ GotArray(req) /\ Len(res.tasks) = 1 /\ Len(req.reply.elems) = 2
  /\ \E i \in 1..2 :
       /\ req.reply.elems[i].priority = Str("P5")
       /\ IsString(req.reply.elems[i].assignee)

\* An element that lacks only its priority.
MissingPriorityOnly(e) ==
  /\ e.json = "object"
  /\ IsString(e.task_description) /\ IsString(e.assignee) /\ IsString(e.due_date)
  /\ ~IsPresent(e.priority)

\* C8: a candidate that lacks a priority and is otherwise valid is kept in
\* the result, with priority P3.
C8_MissingPriorityIsP3 ==
  GotArray(req)
    => \A i \in 1..Len(req.reply.elems) :
         MissingPriorityOnly(req.reply.elems[i])
           => \E j \in 1..Len(res.tasks) :
                res.tasks[j] = [task_description |-> req.reply.elems[i].task_description.val,
                                assignee |-> req.reply.elems[i].assignee.val,
                                due_date |-> req.reply.elems[i].due_date.val,
                                priority |-> "P3"]

\* A reply held a candidate without priority.
C8_Witness ==
  /\ GotArray(req) /\ res.status = 200
  /\ \E i \in 1..Len(req.reply.elems) : MissingPriorityOnly(req.reply.elems[i])

\* The reply parsed and no candidate of it passes validation.
ZeroSurvive(r) ==
  /\ IsExtract(r)
  /\ r.reply.outcome = "ok"
  /\ \/ r.reply.content = "object" /\ r.reply.tasksKind = "absent"
     \/ /\ r.reply.content = "object" /\ r.reply.tasksKind = "array"
        /\ \A i \in 1..Len(r.reply.elems) : ~extractedTaskSchemaOk(r.reply.elems[i])

NoTasksFound == Response(200, "", "No tasks found", <<>>)

\* C9: when the reply has no `tasks` key or no candidate survives, the
\* extraction answers success with an empty list and "No tasks found"; when
\* that response arrives the dashboard shows a neutral toast and leaves the
\* review modal and its candidates as they were.
C9_NoTasksFoundIsNotAnError ==
  [][ /\ ZeroSurvive(req') => res' = NoTasksFound
      /\ ( extractPending = NoTasksFound /\ extractPending' = NoResponse )
           => /\ toast' = Toast("No tasks found", "default")
              /\ showModal' = showModal
              /\ extractedTasks' = extractedTasks ]_vars

\* The dashboard received "no tasks found" for a reply without a `tasks` key.
C9_Witness ==
  /\ ZeroSurvive(req) /\ req.reply.tasksKind = "absent"
  /\ extractPending = NoResponse
  /\ res = NoTasksFound
  /\ toast = Toast("No tasks found", "default")
  /\ ~showModal

\* transcript is empty, missing or not a string.
BadTranscript(body) ==
  \/ ~IsPresent(body.transcript)
  \/ ~IsString(body.transcript)
  \/ (IsString(body.transcript) /\ Len(body.transcript.val) = 0)

\* C10: an extraction request whose transcript is empty, missing or not a
\* string is answered with a 4xx status and makes no model call; a blank
\* transcript in the dashboard sends no request at all.
C10_BadTranscriptRejected ==
  [][ /\ ( IsExtract(req') /\ BadTranscript(req'.body) )
           => ( res'.status \in 400..499 /\ modelCalls' = modelCalls )
      /\ ( toast' # toast /\ toast'.title = "No transcript" )
           => ( Trim(transcript) = <<>> /\ UNCHANGED <<req, res, modelCalls, extractPending>> )
      /\ ( extractPending = NoResponse /\ extractPending' # NoResponse )
           => Trim(transcript) # <<>> ]_vars

\* A signed-in user's request with a number for transcript was rejected
\* after the model had served other requests.
C10_Witness ==
  /\ IsExtract(req) /\ requireAuth(req.caller)
  /\ req.body.transcript.kind = "number"
  /\ res.status = 400
  /\ modelCalls > 0

\* The completion call failed, or its content is not JSON.
ModelFailed(r) ==
  /\ IsExtract(r)
  /\ \/ r.reply.outcome = "throws"
     \/ (r.reply.outcome = "ok" /\ r.reply.content = "nonjson")

ExtractionFailed == Response(500, "Failed to extract tasks", "", <<>>)

\* C11: when the model call fails or its reply is not JSON, the request has
\* made exactly one model call and is answered with the one opaque error,
\* a non-2xx status and no tasks.
C11_ModelFailureIsOpaque ==
  [][ ModelFailed(req')
      => /\ modelCalls' = modelCalls + 1
         /\ res' = ExtractionFailed
         /\ res'.status \notin 200..299
         /\ res'.tasks = <<>> ]_vars

\* A reply that is not JSON was answered after an earlier request had been served.
C11_Witness ==
  /\ ModelFailed(req) /\ req.reply.content = "nonjson"
  /\ res = ExtractionFailed
  /\ modelCalls = 2

\* C12: an extraction request leaves the Task Store as it was, and its
\* response is the one its own transcript and model reply determine, whatever
\* requests came before.
C12_ExtractionIsStateless ==
  [][ IsExtract(req')
      => /\ tasks' = tasks
         /\ currentTaskId' = currentTaskId
         /\ res' = ExtractHandler(req'.caller, req'.body, req'.reply).res ]_vars

\* Candidates were returned while the store held tasks and after an earlier
\* extraction.
C12_Witness ==
  /\ IsExtract(req)
  /\ res.status = 200 /\ Len(res.tasks) > 0
  /\ DOMAIN tasks # {}
  /\ modelCalls = 2

(***************************************************************************)
(* Properties of bulk-create.                                              *)
(***************************************************************************)
\* An item the persisted-task schema accepts: an object whose description,
\* assignee and due-date text are strings and whose priority, when given,
\* is a string.
WellFormedItem(item) ==
  /\ item.json = "object"
  /\ item.task_description.kind = "string"
  /\ item.assignee.kind = "string"
  /\ item.due_date.kind = "string"
  /\ item.priority.kind \in {"string", "absent"}

\* An authenticated bulk-create request whose `tasks` is an array.
CreatesFrom(r) == IsBulkCreate(r) /\ requireAuth(r.caller) /\ r.body.isArray

\* C13: the store gains exactly one task per well-formed item, the response
\* lists exactly those tasks in input order, and an item that is not
\* well-formed creates nothing without stopping the others.
C13_OneTaskPerWellFormedItem ==
  [][ CreatesFrom(req')
      => LET wf == SelectSeq(req'.body.items, WellFormedItem)
             n == Len(wf)
         IN /\ res'.status = 201
            /\ Len(res'.tasks) = n
            /\ DOMAIN tasks' = (DOMAIN tasks) \cup (currentTaskId .. (currentTaskId + n - 1))
            /\ \A id \in DOMAIN tasks : tasks'[id] = tasks[id]
            /\ \A i \in 1..n :
                 /\ res'.tasks[i] = tasks'[currentTaskId + i - 1]
                 /\ res'.tasks[i].id = currentTaskId + i - 1
                 /\ res'.tasks[i].description = wf[i].task_description.val
                 /\ res'.tasks[i].assignee = wf[i].assignee.val ]_vars

\* An item without an assignee came first and the well-formed one after it
\* was created.
C13_Witness ==
  /\ CreatesFrom(req)
  /\ Len(req.body.items) = 2
  /\ ~WellFormedItem(req.body.items[1])
  /\ WellFormedItem(req.body.items[2])
  /\ Len(res.tasks) = 1
  /\ res.tasks[1].description = "d2"
  /\ res.tasks[1].id \in DOMAIN tasks

\* The text parses as a date.
Parses(text) == NewDate(Str(text)) # InvalidDate

\* C14 (a step that leaves the clock alone serves a request): every
\* well-formed item becomes a task whose original due-date text
\* is the item's text exactly; when the text does not parse the task is
\* created all the same, due one day after the request time.
C14_OriginalTextKept ==
  [][ (CreatesFrom(req') /\ now' = now)
      => LET wf == SelectSeq(req'.body.items, WellFormedItem)
         IN /\ Len(res'.tasks) = Len(wf)
            /\ \A i \in 1..Len(wf) :
                 LET t == res'.tasks[i]
                 IN /\ t.id \in DOMAIN tasks' /\ tasks'[t.id] = t
                    /\ t.dueDateOriginal = wf[i].due_date.val
                    /\ (~Parses(wf[i].due_date.val) => t.dueDateUtc = now + 1) ]_vars

\* On the second day a phrase that does not parse and a date that does were
\* both stored.
C14_Witness ==
  /\ CreatesFrom(req)
  /\ now = 2
  /\ Len(res.tasks) = 2
  /\ ~Parses(res.tasks[1].dueDateOriginal) /\ res.tasks[1].dueDateUtc = 3
  /\ Parses(res.tasks[2].dueDateOriginal) /\ res.tasks[2].dueDateUtc = 20

\* C15: whatever bulk-create and update requests were served, every stored
\* task has a priority in P1..P4.
C15_StoredPriorityInEnum ==
  \A id \in DOMAIN tasks : tasks[id].priority \in {"P1", "P2", "P3", "P4"}

(***************************************************************************)
(* Properties of the review modal.                                         *)
(***************************************************************************)
NoTasksToApprove == Toast("No tasks to approve", "destructive")

\* An approval request goes out in this step.
ApprovalSent == approvePending = NoResponse /\ approvePending' # NoResponse

\* The response to an approval request arrives in this step.
ApprovalArrives == approvePending # NoResponse /\ approvePending' = NoResponse

C17_SuccessEmptiesWorkingSet ==
  [][ (ApprovalArrives /\ apiRequestOk(approvePending))
      => /\ modalTasks' = <<>>
         /\ extractedTasks' = <<>>
         /\ showModal' = FALSE
         /\ listStale' = TRUE
         /\ ApproveDisabled' ]_vars

\* An approval of two candidates succeeded: both are stored, the working
\* set is empty and the list awaits its refresh.
C17_Witness ==
  /\ toast = Toast("Tasks approved", "default")
  /\ modalTasks = <<>>
  /\ listStale
  /\ ~showModal
  /\ DOMAIN tasks = {1, 2}

\* C18: when an approval fails the working set is what it was when the
\* failure arrived, candidate for candidate, the modal stays as it was, and
\* the approve control is available again for a working set that is not empty.
C18_FailureKeepsWorkingSet ==
  [][ (ApprovalArrives /\ ~apiRequestOk(approvePending))
      => /\ modalTasks' = modalTasks
         /\ extractedTasks' = extractedTasks
         /\ showModal' = showModal
         /\ toast' = Toast("Approval failed", "destructive")
         /\ (Len(modalTasks) > 0 => ~ApproveDisabled') ]_vars

\* After a failed approval, a working set that ends in a blank candidate is
\* on its way to the server again.
C18_Witness ==
  /\ toast = Toast("Approval failed", "destructive")
  /\ showModal
  /\ Len(modalTasks) = 2 /\ modalTasks[2] = newTask
  /\ approvePending # NoResponse

AfterRemoval(s, i, k) == IF k < i THEN s[k] ELSE s[k + 1]

C21_EditReplacesOneField ==
  [][ \A index \in 1..2, field \in CandidateFields :
        \A value \in EditValues(field) :
          modalUpdateTask(index, field, value)
          => /\ Len(modalTasks') = Len(modalTasks)
             /\ modalTasks'[index][field] = value
             /\ \A g \in CandidateFields \ {field} :
                  modalTasks'[index][g] = modalTasks[index][g]
             /\ \A k \in 1..Len(modalTasks) :
                  k # index => modalTasks'[k] = modalTasks[k]
             /\ UNCHANGED <<tasks, currentTaskId, req, res>> ]_vars

\* The description of the first candidate was emptied: its other fields and
\* the second candidate are the extracted ones.
C21_Witness ==
  /\ showModal
  /\ Len(modalTasks) = 2 /\ Len(extractedTasks) = 2
  /\ modalTasks[1].task_description = ""
  /\ modalTasks[1] = [extractedTasks[1] EXCEPT !.task_description = ""]
  /\ modalTasks[2] = extractedTasks[2]

(***************************************************************************)
(* Properties of the routes taken together.                                *)
(***************************************************************************)
\* A request to one of the guarded endpoints that carries no session.
Unauthenticated(r) == r.endpoint # "none" /\ r.caller = Anonymous

\* C22: a request without a session to the extraction, list, bulk-create,
\* update or delete endpoint is answered 401 "Authentication required",
\* leaves the Task Store as it was and makes no model call.
C22_NoSessionNoEffect ==
  [][ Unauthenticated(req')
      => /\ res' = AuthRequired
         /\ res'.status = 401
         /\ tasks' = tasks
         /\ currentTaskId' = currentTaskId
         /\ modelCalls' = modelCalls ]_vars

\* A delete without a session named a task that exists; the task is still
\* there.
C22_Witness ==
  /\ Unauthenticated(req)
  /\ IsDelete(req)
  /\ req.id \in DOMAIN tasks
  /\ res = AuthRequired

\* An authenticated bulk-create request with an item that is not well-formed.
HasMalformed(r) ==
  /\ CreatesFrom(r)
  /\ \E i \in 1..Len(r.body.items) : ~WellFormedItem(r.body.items[i])

\* C23, as stated: a bulk-create request with a malformed candidate gets a
\* 4xx response with a message, and no task is written.
C23_MalformedRejected ==
  [][ HasMalformed(req')
      => /\ res'.status \in 400..499
         /\ res'.error # ""
         /\ tasks' = tasks ]_vars

\* C23, amended: a malformed candidate is passed over without a word: the
\* response is 201 with no error text and lists the tasks made from the
\* well-formed candidates of the same request, all of which are written.
\* Only a `tasks` that is not an array is rejected, with 400.
C23_MalformedSkippedSilently ==
  [][ /\ HasMalformed(req')
        => /\ res'.status = 201
           /\ res'.error = ""
           /\ Len(res'.tasks) = Len(SelectSeq(req'.body.items, WellFormedItem))
           /\ \A i \in 1..Len(res'.tasks) : res'.tasks[i].id \in (DOMAIN tasks') \ (DOMAIN tasks)
      /\ (IsBulkCreate(req') /\ requireAuth(req'.caller) /\ ~req'.body.isArray)
        => /\ res' = Response(400, "Tasks array is required", "", <<>>)
           /\ tasks' = tasks ]_vars

\* A well-formed item came first and a null after it: 201 with the one task.
C23_Witness ==
  /\ HasMalformed(req)
  /\ Len(req.body.items) = 2
  /\ WellFormedItem(req.body.items[1])
  /\ req.body.items[2] = NullItem
  /\ res.status = 201
  /\ Len(res.tasks) = 1
  /\ DOMAIN tasks # {}

(***************************************************************************)
(* Properties of the review session as a whole.                            *)
(***************************************************************************)
\* The modal is dismissed in this step (a success closes it too, but that
\* step takes the pending response away).
Cancelled == showModal /\ ~showModal' /\ approvePending' = approvePending

\* C24: cancel sends no request and leaves the Task Store alone; while the
\* modal is closed nothing is submitted; and the modal opens again only on
\* the output of an extraction that has just arrived, so what a cancelled
\* working set held (edits included) is never submitted later.
C24_CancelDiscardsWorkingSet ==
  [][ /\ Cancelled => (req' = req /\ res' = res /\ tasks' = tasks
                        /\ currentTaskId' = currentTaskId)
      /\ ~showModal => (~ApprovalSent /\ tasks' = tasks)
      /\ (~showModal /\ showModal')
           => /\ extractPending # NoResponse /\ apiRequestOk(extractPending)
              /\ modalTasks' = extractPending.tasks
              /\ extractedTasks' = extractPending.tasks ]_vars

\* The modal was closed on a working set the user had changed (a candidate
\* removed, a blank one added); nothing was stored.
C24_Witness ==
  /\ ~showModal
  /\ Len(extractedTasks) = 2
  /\ modalTasks = <<extractedTasks[2], newTask>>
  /\ approvePending = NoResponse
  /\ DOMAIN tasks = {}

\* C26: when an approval is reported as successful, the count the toast
\* gives is the number of tasks the request persisted.
C26_AnnouncedIsPersisted ==
  [][ (ApprovalArrives /\ apiRequestOk(approvePending))
      => announced' = Len(approvePending.tasks) ]_vars

\* C27: every stored task has a description that is not empty.
C27_DescriptionNotEmpty ==
  \A id \in DOMAIN tasks : tasks[id].description # ""

\* C29: while an approval is in flight no step writes to the Task Store or
\* puts another request in its place, and the request of one approval
\* stores at most as many tasks as the working set had candidates.
C29_OneRequestInFlight ==
  [][ /\ approvePending # NoResponse
           => /\ tasks' = tasks
              /\ currentTaskId' = currentTaskId
              /\ approvePending' \in {approvePending, NoResponse}
      /\ ApprovalSent
           => Cardinality((DOMAIN tasks') \ (DOMAIN tasks)) <= Len(modalTasks) ]_vars

\* An approval of two candidates is in flight, both are stored, and the
\* modal is still open on them.
C29_Witness ==
  /\ approvePending # NoResponse /\ apiRequestOk(approvePending)
  /\ showModal
  /\ Len(modalTasks) = 2
  /\ Cardinality(DOMAIN tasks) = 2

\* C25: every task a bulk-create request creates belongs to the caller of
\* that request and is not completed, whatever owner, id or completed value
\* the item itself carries.
C25_CreatedForCallerNotCompleted ==
  [][ CreatesFrom(req')
      => \A i \in 1..Len(res'.tasks) :
           LET t == res'.tasks[i]
           IN /\ t.userId = req'.caller
              /\ t.completed = FALSE
              /\ t.id = currentTaskId + i - 1
              /\ t.id \in (DOMAIN tasks') \ (DOMAIN tasks)
              /\ tasks'[t.id] = t ]_vars

\* User 1 sent an item that names user 2 as owner, id 7 and completed true;
\* the task is user 1's, open, with the store's id.
C25_Witness ==
  /\ CreatesFrom(req)
  /\ req.caller = "1"
  /\ Len(req.body.items) = 1
  /\ "userId" \in DOMAIN req.body.items[1]
  /\ req.body.items[1].userId.val = "2"
  /\ Len(res.tasks) = 1
  /\ res.tasks[1].userId = "1"
  /\ res.tasks[1].completed = FALSE
  /\ res.tasks[1].id = 1

(***************************************************************************)
(* Properties of the task table.                                           *)
(***************************************************************************)
\* The fields of a task the edit form has no say over.
SameBeyondForm(t, u) ==
  /\ u.id = t.id
  /\ u.userId = t.userId
  /\ u.dueDateUtc = t.dueDateUtc
  /\ u.dueDateOriginal = t.dueDateOriginal
  /\ u.completed = t.completed
  /\ u.createdAt = t.createdAt

\* A request the edit form sent (the status control sends no description).
SavedFromForm(r) == IsPut(r) /\ IsPresent(r.body.description)

ValidationError == Toast("Validation error", "destructive")

\* C28: a save of the edit form changes at most the description, assignee
\* and priority of the edited task, whatever its due-date field holds: the
\* request names no other field, and due date, original text, completed,
\* owner and id stay, as does every other task; a save with a blank
\* description sends no request.
C28_SaveChangesThreeFields ==
  [][ /\ SavedFromForm(req')
           => /\ \A k \in BodyKeys \ {"description", "assignee", "priority"} :
                   ~IsPresent(req'.body[k])
              /\ Trim(<<req'.body.description.val>>) # <<>>
              /\ DOMAIN tasks' = DOMAIN tasks
              /\ \A k \in DOMAIN tasks :
                   IF k = req'.id
                   THEN SameBeyondForm(tasks[k], tasks'[k])
                   ELSE tasks'[k] = tasks[k]
      /\ (toast' = ValidationError /\ toast # ValidationError)
           => (req' = req /\ res' = res /\ tasks' = tasks) ]_vars

\* A completed task was saved from the form: new description and assignee,
\* still completed, still due on the day it was created with.
C28_Witness ==
  /\ toast = Toast("Task updated", "default")
  /\ IsPut(req)
  /\ req.id \in DOMAIN tasks
  /\ tasks[req.id].description = "d9"
  /\ tasks[req.id].assignee = "Zoe"
  /\ tasks[req.id].completed = TRUE
  /\ tasks[req.id].dueDateOriginal = "2025-06-20"
  /\ tasks[req.id].userId = SessionUser

\* C30: each press of the status control of a row flips the stored
\* completed flag of that row's task.
C30_PressFlipsStoredFlag ==
  [][ \A index \in 1..MaxTaskId :
        (toggleTask(index) /\ listData[index].id \in DOMAIN tasks)
        => tasks'[listData[index].id].completed = ~tasks[listData[index].id].completed ]_vars

====
